---- MODULE Spec2Model ----
(***************************************************************************)
(* Model of the job-application agent: the document text extractor         *)
(* (cv_parser.py), the language-model interface (llm_interface.py), the    *)
(* Telegram conversation handlers (telegram_bot.py) and the profile store  *)
(* (job_manager.py).                                                       *)
(*                                                                         *)
(* Python strings that the code slices, strips or compares are sequences   *)
(* of one-character strings.  A call that returns or raises is a record    *)
(* [tag |-> "ok", val |-> v] or [tag |-> "raise", exc |-> class].          *)
(***************************************************************************)
EXTENDS Integers, Sequences, FiniteSets, TLC

VARIABLES
    conv,        \* per user: the ConversationHandler state of the chat
    user_data,   \* per user: context.user_data, a dict keyed by strings
    model,       \* llm_interface._model is set (client configured)
    api_key,     \* config.GEMINI_API_KEY: "set", "missing" or "placeholder"
    llm,         \* the response the model endpoint gives to the next call
    turn,        \* the last update dispatched by the bot and what it did
    files,       \* job_manager: per user, content of <user>_job_applications.json
    profiles,    \* job_manager: per user, content of <user>_profile.json
    clock,       \* value datetime.now() returns
    probe        \* the last direct call of a library function and its result

vars == <<conv, user_data, model, api_key, llm, turn, files, profiles, clock, probe>>

botVars == <<conv, user_data, model, api_key, llm, turn>>
storeVars == <<files, profiles, clock>>

\* ------------------------------------------------------------------------
\* Bounds
\* ------------------------------------------------------------------------
MaxParts == 2       \* pages / paragraphs of a drawn document
MaxQuestions == 2   \* length of a drawn question list
MaxClock == 3       \* ticks of the wall clock
MaxCands == 2       \* candidates of a drawn model response

Users == {"u1", "u2"}

\* the outcome of a call: a returned value, or a raised exception class
Ok(v) == [tag |-> "ok", val |-> v]
Raise(e) == [tag |-> "raise", exc |-> e]

Min(a, b) == IF a < b THEN a ELSE b

\* ------------------------------------------------------------------------
\* Python string helpers
\* ------------------------------------------------------------------------
Whitespace == {" ", "\n"}

\* str.lower() on one character
LowerChar(c) ==
    CASE c = "P" -> "p"
      [] c = "D" -> "d"
      [] c = "F" -> "f"
      [] c = "O" -> "o"
      [] c = "C" -> "c"
      [] c = "X" -> "x"
      [] c = "T" -> "t"
      [] OTHER -> c

Lower(s) == [i \in 1..Len(s) |-> LowerChar(s[i])]

\* str.endswith(suffix)
EndsWith(s, suffix) ==
    /\ Len(s) >= Len(suffix)
    /\ SubSeq(s, Len(s) - Len(suffix) + 1, Len(s)) = suffix

RECURSIVE LStrip(_)
LStrip(s) == IF s # <<>> /\ Head(s) \in Whitespace THEN LStrip(Tail(s)) ELSE s

RECURSIVE RStrip(_)
RStrip(s) ==
    IF s # <<>> /\ s[Len(s)] \in Whitespace THEN RStrip(SubSeq(s, 1, Len(s) - 1)) ELSE s

\* str.strip()
Strip(s) == RStrip(LStrip(s))

\* "\n".join(parts)
RECURSIVE JoinLines(_)
JoinLines(parts) ==
    IF parts = <<>> THEN <<>>
    ELSE IF Len(parts) = 1 THEN parts[1]
    ELSE parts[1] \o <<"\n">> \o JoinLines(Tail(parts))

\* index of the last occurrence of c in s, 0 when absent (str.rfind + 1)
LastIndex(s, c) ==
    IF \E i \in 1..Len(s) : s[i] = c
    THEN CHOOSE i \in 1..Len(s) : s[i] = c /\ \A j \in (i+1)..Len(s) : s[j] # c
    ELSE 0

\* os.path.splitext(p)[1]: the text from the last dot of the last path
\* component, unless that component has only dots before it
SplitExt(p) ==
    LET sep == LastIndex(p, "/")
        dot == LastIndex(p, ".")
    IN  IF dot > sep /\ \E i \in (sep+1)..(dot-1) : p[i] # "."
        THEN SubSeq(p, dot, Len(p))
        ELSE <<>>

PdfExt == <<".", "p", "d", "f">>
DocxExt == <<".", "d", "o", "c", "x">>

\* ------------------------------------------------------------------------
\* cv_parser.py
\* ------------------------------------------------------------------------
\* A page or paragraph: its text, or a page whose extract_text() raises,
\* or a page whose extract_text() returns None.
PartTexts == {<<>>, <<"a">>, <<" ">>, <<"b", " ">>}
PageError == [kind |-> "raises", text |-> <<>>]
PageNone == [kind |-> "none", text |-> <<>>]
Parts == {[kind |-> "text", text |-> t] : t \in PartTexts} \cup {PageError, PageNone}

Formats == {"pdf", "docx", "junk"}

PartSeqs == UNION {[1..n -> Parts] : n \in 0..MaxParts}

\* an uploaded byte stream: the container it really is, and its parts
Docs == [format : Formats, parts : PartSeqs]

\* _extract_text_from_pdf without the inner try: a page that raises is
\* caught by the outer clause
_extract_text_from_pdf_AbortsOnPageError(doc) ==
    IF doc.format # "pdf" THEN Raise("CVParserError")
    ELSE IF \E i \in 1..Len(doc.parts) : doc.parts[i].kind = "raises"
    THEN Raise("CVParserError")
    ELSE LET text_parts == [i \in 1..Len(doc.parts) |->
                               IF doc.parts[i].kind = "text"
                               THEN doc.parts[i].text ELSE <<>>]
         IN  Ok(JoinLines(text_parts))

\* _extract_text_from_pdf
_extract_text_from_pdf(doc) ==
    IF doc.format # "pdf" THEN Raise("CVParserError")
    ELSE LET text_parts == [i \in 1..Len(doc.parts) |->
                               IF doc.parts[i].kind = "text"
                               THEN doc.parts[i].text ELSE <<>>]
         IN  Ok(JoinLines(text_parts))

\* _extract_text_from_docx
_extract_text_from_docx(doc) ==
    IF doc.format # "docx" THEN Raise("CVParserError")
    ELSE IF \E i \in 1..Len(doc.parts) : doc.parts[i].kind # "text"
    THEN Raise("CVParserError")
    ELSE Ok(JoinLines([i \in 1..Len(doc.parts) |-> doc.parts[i].text]))

\* parse_cv trying the PDF extractor on every extension it does not know
parse_cv_SniffsPdf(doc, file_name) ==
    LET file_extension == SplitExt(Lower(file_name))
        extracted ==
            IF file_extension = DocxExt THEN _extract_text_from_docx(doc)
            ELSE _extract_text_from_pdf(doc)
    IN  IF extracted.tag = "raise" THEN extracted
        ELSE Ok(Strip(extracted.val))

\* parse_cv called with a stream
parse_cv(doc, file_name) ==
    LET file_extension == SplitExt(Lower(file_name))
        extracted ==
            IF file_extension = PdfExt THEN _extract_text_from_pdf(doc)
            ELSE IF file_extension = DocxExt THEN _extract_text_from_docx(doc)
            ELSE Raise("CVParserError")
    IN  IF extracted.tag = "raise" THEN extracted
        ELSE Ok(Strip(extracted.val))

\* ------------------------------------------------------------------------
\* JSON text, as the tokens json.loads reads
\* ------------------------------------------------------------------------
Tok(t) == [t |-> t, s |-> <<>>]
StrTok(chars) == [t |-> "str", s |-> chars]
ScalarToks == {"str", "num", "null"}

\* a parsed JSON scalar, and a parsed JSON document (list or dict of scalars,
\* or a bare scalar); key is the member name in a dict, empty in a list
Item(key, tok) == [key |-> key, type |-> tok.t, s |-> tok.s]
JList(items) == [type |-> "list", items |-> items]
JDict(items) == [type |-> "dict", items |-> items]
JScalar(tok) == [type |-> tok.t, items |-> <<Item(<<>>, tok)>>]

\* the tokens between the brackets form: scalar (, scalar)*
IsElements(inner) ==
    /\ Len(inner) % 2 = 1
    /\ \A i \in 1..Len(inner) :
          IF i % 2 = 1 THEN inner[i].t \in ScalarToks ELSE inner[i].t = ","

\* the tokens between the braces form: str : scalar (, str : scalar)*
IsMembers(inner) ==
    /\ Len(inner) % 4 = 3
    /\ \A i \in 1..Len(inner) :
          CASE i % 4 = 1 -> inner[i].t = "str"
            [] i % 4 = 2 -> inner[i].t = ":"
            [] i % 4 = 3 -> inner[i].t \in ScalarToks
            [] OTHER -> inner[i].t = ","

\* the dict json.loads builds from the members of an object, inserted in
\* order: a repeated name keeps its first place and takes the later value
RECURSIVE DictItems(_, _)
DictItems(acc, members) ==
    IF members = <<>> THEN acc
    ELSE LET m == Head(members)
             hit == {i \in 1..Len(acc) : acc[i].key = m.key}
         IN  DictItems(IF hit = {} THEN Append(acc, m)
                       ELSE [acc EXCEPT ![CHOOSE i \in hit : TRUE] = m],
                       Tail(members))

\* json.loads, for the flat documents the prompts ask for
json_loads(toks) ==
    LET n == Len(toks)
        inner == SubSeq(toks, 2, n - 1)
    IN  IF n = 1 /\ toks[1].t \in ScalarToks THEN Ok(JScalar(toks[1]))
        ELSE IF n >= 2 /\ toks[1].t = "[" /\ toks[n].t = "]"
                /\ (inner = <<>> \/ IsElements(inner))
        THEN Ok(JList([k \in 1..((Len(inner) + 1) \div 2) |->
                          Item(<<>>, inner[2 * k - 1])]))
        ELSE IF n >= 2 /\ toks[1].t = "{" /\ toks[n].t = "}"
                /\ (inner = <<>> \/ IsMembers(inner))
        THEN Ok(JDict(DictItems(<<>>, [k \in 1..((Len(inner) + 1) \div 4) |->
                                         Item(inner[4 * k - 3].s, inner[4 * k - 1])])))
        ELSE Raise("JSONDecodeError")

\* ------------------------------------------------------------------------
\* llm_interface.py
\* ------------------------------------------------------------------------
\* configure_genai_client: m is _model before the call, key the configured
\* GEMINI_API_KEY, sdk_ok whether genai.configure / GenerativeModel succeed.
\* Yields the outcome and _model after the call.
configure_genai_client(m, key, sdk_ok) ==
    IF m THEN [res |-> Ok("None"), model |-> TRUE]
    ELSE IF key # "set" THEN [res |-> Raise("ConfigError"), model |-> FALSE]
    ELSE IF ~sdk_ok THEN [res |-> Raise("LLMInterfaceError"), model |-> FALSE]
    ELSE [res |-> Ok("None"), model |-> TRUE]

FinishReasons == {"STOP", "MAX_TOKENS", "SAFETY", "RECITATION", "OTHER"}

\* candidate.content: None, a content without parts, or a content with parts
Contents == {"none", "empty", "parts"}

\* an exception with its message: the phrases of the message, outermost
\* first (an except clause that re-raises puts the message of the exception
\* it caught after its own)
Failure(exc, msg) == [tag |-> "raise", exc |-> exc, msg |-> msg]

\* the loop treating a blocked candidate like a truncated one
CandidateStep_BlockedReturnsText(c) ==
    IF c.finish = "STOP" /\ c.content = "parts"
    THEN IF c.text # <<>> THEN "return" ELSE "next"
    ELSE IF c.finish \in {"MAX_TOKENS", "SAFETY", "RECITATION"}
    THEN IF c.content = "none" THEN "AttributeError"
         ELSE IF c.text # <<>> THEN "return" ELSE "next"
    ELSE "generation_failed"

\* what the loop over response.candidates does with one candidate: return
\* its text, go on to the next candidate, or raise (and then, which error)
CandidateStep(c) ==
    IF c.finish = "STOP" /\ c.content = "parts"
    THEN IF c.text # <<>> THEN "return" ELSE "next"
    ELSE IF c.finish = "MAX_TOKENS"
    THEN IF c.content = "none" THEN "AttributeError"
         ELSE IF c.text # <<>> THEN "return" ELSE "next"
    ELSE IF c.finish \in {"SAFETY", "RECITATION"} THEN "prompt_blocked"
    ELSE "generation_failed"

\* _send_prompt_async: m is _model, resp the response of generate_content_async
_send_prompt_async(m, resp) ==
    IF ~m THEN Failure("LLMInterfaceError", <<"not_configured">>)
    ELSE IF resp.api_error THEN Failure("LLMInterfaceError", <<"api_error">>)
    ELSE LET stops == {i \in 1..Len(resp.cands) : CandidateStep(resp.cands[i]) # "next"}
         IN  IF stops # {}
             THEN LET first == CHOOSE i \in stops : \A j \in stops : i <= j
                      step == CandidateStep(resp.cands[first])
                  IN  IF step = "return"
                      THEN Ok(resp.cands[first].text)
                      ELSE Failure("LLMInterfaceError", <<"unexpected_error", step>>)
             ELSE IF resp.text # <<>> THEN Ok(resp.text)
             ELSE Failure("LLMInterfaceError", <<"unexpected_error", "no_text">>)

\* how the except clauses of analyze_cv_text and
\* generate_clarification_questions map an exception raised in the try
\* block.  `json` is a local name of the function, bound by the `import
\* json` that follows the model call: when the call itself raises, the
\* first clause `except json.JSONDecodeError` reads the unbound local.
ExceptClauses(exc, json_bound) ==
    IF ~json_bound THEN Raise("UnboundLocalError")
    ELSE Raise("LLMInterfaceError")

\* analyze_cv_text; yields the outcome and _model after the call
analyze_cv_text(m, key, sdk_ok, resp) ==
    LET cfg == configure_genai_client(m, key, sdk_ok)
        sent == _send_prompt_async(cfg.model, resp)
        analysis == json_loads(sent.val)
    IN  IF cfg.res.tag = "raise" THEN cfg
        ELSE IF sent.tag = "raise"
        THEN [res |-> ExceptClauses(sent.exc, FALSE), model |-> cfg.model]
        ELSE IF analysis.tag = "raise"
        THEN [res |-> ExceptClauses(analysis.exc, TRUE), model |-> cfg.model]
        ELSE [res |-> analysis, model |-> cfg.model]

\* the check of the list alone, not of its elements
IsListOfStrings_AnyList(v) == v.type = "list"

\* isinstance(questions, list) and all(isinstance(q, str) for q in questions)
IsListOfStrings(v) ==
    /\ v.type = "list"
    /\ \A i \in 1..Len(v.items) : v.items[i].type = "str"

\* generate_clarification_questions; on success val is the list of strings
generate_clarification_questions(m, key, sdk_ok, resp) ==
    LET cfg == configure_genai_client(m, key, sdk_ok)
        sent == _send_prompt_async(cfg.model, resp)
        questions == json_loads(sent.val)
    IN  IF cfg.res.tag = "raise" THEN cfg
        ELSE IF sent.tag = "raise"
        THEN [res |-> ExceptClauses(sent.exc, FALSE), model |-> cfg.model]
        ELSE IF questions.tag = "raise"
        THEN [res |-> ExceptClauses(questions.exc, TRUE), model |-> cfg.model]
        ELSE IF ~IsListOfStrings(questions.val)
        THEN [res |-> ExceptClauses("LLMInterfaceError", TRUE), model |-> cfg.model]
        ELSE [res |-> Ok([i \in 1..Len(questions.val.items) |->
                             questions.val.items[i].s]),
              model |-> cfg.model]

\* ------------------------------------------------------------------------
\* telegram_bot.py: handlers
\* ------------------------------------------------------------------------
\* ConversationHandler states; NONE is a chat with no conversation yet, END a
\* chat whose conversation a handler ended (ConversationHandler.END)
ASK_CV == "ASK_CV"
ASK_QUESTIONS == "ASK_QUESTIONS"
END == "END"
NONE == "NONE"

SessionKeys == {"questions", "answers", "current_question_index",
                "raw_cv_text", "cv_analysis"}

\* dict helpers for context.user_data
EmptyDict == [k \in {} |-> k]
Put(d, k, v) == [x \in DOMAIN d \cup {k} |-> IF x = k THEN v ELSE d[x]]
Pop(d, keys) == [x \in DOMAIN d \ keys |-> d[x]]

\* one reply_text call: the message category and, for a question, its text
Reply(kind) == [kind |-> kind, body |-> <<>>]
Question(q) == [kind |-> "question", body |-> q]

\* what the handlers hand to persistence where the store_user_preferences
\* placeholder stands: the analysis and the preferences
Handoff(cv_analysis, preferences) ==
    [cv_analysis |-> cv_analysis, preferences |-> preferences]

\* what a handler call yields: the value it returns (a state, "None", or the
\* exception that escapes it), user_data and _model afterwards, the replies
\* sent, the model calls made, the hand-offs to persistence
Outcome(ret, ud, m, replies, calls, saved) ==
    [ret |-> ret, ud |-> ud, model |-> m, replies |-> replies,
     calls |-> calls, saved |-> saved]

\* `await x`: only an awaitable can be awaited; configure_genai_client is a
\* plain function and returns None
Await(res) ==
    IF res.tag = "raise" THEN res
    ELSE IF res.val = "None" THEN Raise("TypeError")
    ELSE res

\* ensure_llm_client_configured
ensure_llm_client_configured(m, key, sdk_ok) ==
    LET cfg == configure_genai_client(m, key, sdk_ok)
    IN  [res |-> Await(cfg.res), model |-> cfg.model]

\* start_command
start_command(ud, m) ==
    Outcome(ASK_CV, ud, m, <<Reply("welcome")>>, <<>>, <<>>)

\* the except clauses of handle_cv_upload
UploadExcept(exc, ud, m, replies, calls) ==
    CASE exc = "CVParserError" ->
            Outcome(ASK_CV, ud, m, Append(replies, Reply("error_parsing")), calls, <<>>)
      [] exc = "LLMInterfaceError" ->
            Outcome(END, ud, m, Append(replies, Reply("ai_issue")), calls, <<>>)
      [] exc = "ConfigError" ->
            Outcome(END, ud, m, Append(replies, Reply("config_error")), calls, <<>>)
      [] OTHER ->
            Outcome(ASK_CV, ud, m, Append(replies, Reply("unexpected_error")), calls, <<>>)

\* handle_cv_upload: the three assignments that open the question loop
StoreQuestions(ud, questions) ==
    Put(Put(Put(ud, "questions", questions), "answers", EmptyDict),
        "current_question_index", 0)

\* handle_cv_upload, from "3. Generate Clarification Questions" on
UploadQuestions(ud, m, key, sdk_ok, behaviour, replies, calls) ==
    LET r1 == Append(replies, Reply("generating"))
        c1 == Append(calls, "generate_clarification_questions")
        gen == generate_clarification_questions(m, key, sdk_ok, behaviour.questions)
        questions == gen.res.val
        ud1 == StoreQuestions(ud, questions)
    IN  IF gen.res.tag = "raise"
        THEN UploadExcept(gen.res.exc, ud, gen.model, r1, c1)
        ELSE IF questions = <<>>
        THEN Outcome(END, ud, gen.model, Append(r1, Reply("no_questions")), c1,
                     <<Handoff(ud["cv_analysis"], EmptyDict)>>)
        ELSE Outcome(ASK_QUESTIONS, ud1, gen.model,
                     r1 \o <<Reply("lets_clarify"), Question(questions[1])>>,
                     c1, <<>>)

\* handle_cv_upload, from "2. Analyze CV with LLM" on
UploadAnalyze(ud, m, key, sdk_ok, behaviour, raw_cv_text, replies) ==
    LET ud1 == Put(ud, "raw_cv_text", raw_cv_text)
        r1 == Append(replies, Reply("analyzing"))
        c1 == <<"analyze_cv_text">>
        ana == analyze_cv_text(m, key, sdk_ok, behaviour.analysis)
        ud2 == Put(ud1, "cv_analysis", ana.res.val)
    IN  IF ana.res.tag = "raise"
        THEN UploadExcept(ana.res.exc, ud1, ana.model, r1, c1)
        ELSE IF ana.res.val.type # "dict"
        THEN \* cv_analysis.keys() in the log line
             UploadExcept("AttributeError", ud2, ana.model, r1, c1)
        ELSE UploadQuestions(ud2, ana.model, key, sdk_ok, behaviour, r1, c1)

\* handle_cv_upload: msg is the message, behaviour what the model endpoint
\* answers to the analysis and to the question prompt
handle_cv_upload(ud, m, key, sdk_ok, behaviour, msg) ==
    LET lower == Lower(msg.file_name)
        r0 == <<Reply("received")>>
        ens == ensure_llm_client_configured(m, key, sdk_ok)
        parsed == parse_cv(msg.doc, msg.file_name)
    IN  IF ~msg.has_document
        THEN Outcome(ASK_CV, ud, m, <<Reply("not_a_file")>>, <<>>, <<>>)
        ELSE IF ~(EndsWith(lower, PdfExt) \/ EndsWith(lower, DocxExt))
        THEN Outcome(ASK_CV, ud, m, <<Reply("unsupported_type")>>, <<>>, <<>>)
        ELSE IF ens.res.tag = "raise"
        THEN UploadExcept(ens.res.exc, ud, ens.model, r0, <<>>)
        ELSE IF parsed.tag = "raise"
        THEN UploadExcept(parsed.exc, ud, ens.model, r0, <<>>)
        ELSE IF parsed.val = <<>>
        THEN Outcome(ASK_CV, ud, ens.model, Append(r0, Reply("no_text")), <<>>, <<>>)
        ELSE UploadAnalyze(ud, ens.model, key, sdk_ok, behaviour, parsed.val, r0)

\* str(n) for n >= 0
RECURSIVE Decimal(_)
Decimal(n) ==
    LET digit == <<"0", "1", "2", "3", "4", "5", "6", "7", "8", "9">>[(n % 10) + 1]
    IN  IF n < 10 THEN <<digit>> ELSE Append(Decimal(n \div 10), digit)

KeyPrefixLen == 20

\* the key built from the question prefix alone
AnswerKey_NoIndex(current_index, question_answered) ==
    <<"a", "n", "s", "w", "e", "r", "_", "t", "o", "_">>
    \o SubSeq(question_answered, 1, Min(KeyPrefixLen, Len(question_answered)))

\* f"answer_to_{current_index+1}_{question_answered[:20]}", current_index
\* counted from 0
AnswerKey(current_index, question_answered) ==
    <<"a", "n", "s", "w", "e", "r", "_", "t", "o", "_">>
    \o Decimal(current_index + 1) \o <<"_">>
    \o SubSeq(question_answered, 1, Min(KeyPrefixLen, Len(question_answered)))

\* dict.get(key, default)
Get(d, k, default) == IF k \in DOMAIN d THEN d[k] ELSE default

\* handle_question_answer presenting the question just answered once more
handle_question_answer_RepeatsQuestion(ud, m, answer) ==
    LET current_index == Get(ud, "current_question_index", 0)
        questions == Get(ud, "questions", <<>>)
        question_answered == questions[current_index + 1]
        answers == Put(ud["answers"], AnswerKey(current_index, question_answered), answer)
        ud1 == Put(Put(ud, "answers", answers), "current_question_index", current_index + 1)
    IN  IF questions = <<>> \/ current_index >= Len(questions)
        THEN Outcome(ASK_CV, ud, m, <<Reply("something_went_wrong")>>, <<>>, <<>>)
        ELSE IF "answers" \notin DOMAIN ud
        THEN Outcome("KeyError", ud, m, <<>>, <<>>, <<>>)
        ELSE IF current_index + 1 < Len(questions)
        THEN Outcome(ASK_QUESTIONS, ud1, m, <<Question(questions[current_index + 1])>>,
                     <<>>, <<>>)
        ELSE Outcome(END, ud1, m, <<Reply("thanks"), Reply("have_preferences")>>,
                     <<>>, <<Handoff(Get(ud1, "cv_analysis", JDict(<<>>)),
                                     Get(ud1, "answers", EmptyDict))>>)

\* handle_question_answer staying in the question loop when it finds no
\* question to answer
handle_question_answer_StaysInLoop(ud, m, answer) ==
    LET current_index == Get(ud, "current_question_index", 0)
        questions == Get(ud, "questions", <<>>)
        question_answered == questions[current_index + 1]
        answers == Put(ud["answers"], AnswerKey(current_index, question_answered), answer)
        ud1 == Put(Put(ud, "answers", answers), "current_question_index", current_index + 1)
    IN  IF questions = <<>> \/ current_index >= Len(questions)
        THEN Outcome(ASK_QUESTIONS, ud, m, <<Reply("something_went_wrong")>>, <<>>, <<>>)
        ELSE IF "answers" \notin DOMAIN ud
        THEN Outcome("KeyError", ud, m, <<>>, <<>>, <<>>)
        ELSE IF current_index + 1 < Len(questions)
        THEN Outcome(ASK_QUESTIONS, ud1, m, <<Question(questions[current_index + 2])>>,
                     <<>>, <<>>)
        ELSE Outcome(END, ud1, m, <<Reply("thanks"), Reply("have_preferences")>>,
                     <<>>, <<Handoff(Get(ud1, "cv_analysis", JDict(<<>>)),
                                     Get(ud1, "answers", EmptyDict))>>)

\* handle_question_answer advancing its local index without storing it
handle_question_answer_KeepsIndex(ud, m, answer) ==
    LET current_index == Get(ud, "current_question_index", 0)
        questions == Get(ud, "questions", <<>>)
        question_answered == questions[current_index + 1]
        answers == Put(ud["answers"], AnswerKey(current_index, question_answered), answer)
        ud1 == Put(ud, "answers", answers)
    IN  IF questions = <<>> \/ current_index >= Len(questions)
        THEN Outcome(ASK_CV, ud, m, <<Reply("something_went_wrong")>>, <<>>, <<>>)
        ELSE IF "answers" \notin DOMAIN ud
        THEN Outcome("KeyError", ud, m, <<>>, <<>>, <<>>)
        ELSE IF current_index + 1 < Len(questions)
        THEN Outcome(ASK_QUESTIONS, ud1, m, <<Question(questions[current_index + 2])>>,
                     <<>>, <<>>)
        ELSE Outcome(END, ud1, m, <<Reply("thanks"), Reply("have_preferences")>>,
                     <<>>, <<Handoff(Get(ud1, "cv_analysis", JDict(<<>>)),
                                     Get(ud1, "answers", EmptyDict))>>)

\* handle_question_answer
handle_question_answer(ud, m, answer) ==
    LET current_index == Get(ud, "current_question_index", 0)
        questions == Get(ud, "questions", <<>>)
        question_answered == questions[current_index + 1]
        answers == Put(ud["answers"], AnswerKey(current_index, question_answered), answer)
        ud1 == Put(Put(ud, "answers", answers), "current_question_index", current_index + 1)
    IN  IF questions = <<>> \/ current_index >= Len(questions)
        THEN Outcome(ASK_CV, ud, m, <<Reply("something_went_wrong")>>, <<>>, <<>>)
        ELSE IF "answers" \notin DOMAIN ud
        THEN Outcome("KeyError", ud, m, <<>>, <<>>, <<>>)
        ELSE IF current_index + 1 < Len(questions)
        THEN Outcome(ASK_QUESTIONS, ud1, m, <<Question(questions[current_index + 2])>>,
                     <<>>, <<>>)
        ELSE Outcome(END, ud1, m, <<Reply("thanks"), Reply("have_preferences")>>,
                     <<>>, <<Handoff(Get(ud1, "cv_analysis", JDict(<<>>)),
                                     Get(ud1, "answers", EmptyDict))>>)

\* help_command ending the conversation as cancel_command does
help_command_EndsConversation(ud, m) ==
    Outcome(END, ud, m, <<Reply("help")>>, <<>>, <<>>)

\* help_command
help_command(ud, m) ==
    Outcome("None", ud, m, <<Reply("help")>>, <<>>, <<>>)

\* cancel_command forgetting the answers
CancelKeys_NoAnswers ==
    {"questions", "current_question_index", "raw_cv_text", "cv_analysis"}

\* the keys cancel_command pops from user_data
CancelKeys == {"questions", "answers", "current_question_index",
               "raw_cv_text", "cv_analysis"}

\* cancel_command
cancel_command(ud, m) ==
    Outcome(END, Pop(ud, CancelKeys), m, <<Reply("cancelled")>>, <<>>, <<>>)

\* ------------------------------------------------------------------------
\* The inputs the model draws
\* ------------------------------------------------------------------------
\* file names given to parse_cv
FileNames ==
    { <<"c", ".", "p", "d", "f">>,
      <<"c", ".", "P", "D", "F">>,
      <<"c", ".", "d", "o", "c", "x">>,
      <<"c", ".", "t", "x", "t">>,
      <<".", "p", "d", "f">>,
      <<"c", ".", "p", "d", "f", ".", "t", "x", "t">>,
      <<"c", "p", "d", "f">> }

TextPart(t) == [kind |-> "text", text |-> t]
NoDoc == [format |-> "none", parts |-> <<>>]

\* the documents users upload to the bot
UploadDocs ==
    { [format |-> "pdf", parts |-> <<TextPart(<<"a">>)>>],
      [format |-> "pdf", parts |-> <<TextPart(<<" ">>)>>],
      [format |-> "docx", parts |-> <<TextPart(<<"b", " ">>)>>],
      [format |-> "junk", parts |-> <<>>] }

\* the file names of the documents users upload to the bot
UploadNames ==
    { <<"c", ".", "p", "d", "f">>,
      <<"c", ".", "d", "o", "c", "x">>,
      <<"c", ".", "t", "x", "t">>,
      <<".", "p", "d", "f">> }

\* the messages that pass filters.ATTACHMENT | filters.Document.ALL: a
\* document, or another attachment (a photo)
Messages ==
    [has_document : {TRUE}, file_name : UploadNames, doc : UploadDocs]
    \cup {[has_document |-> FALSE, file_name |-> <<>>, doc |-> NoDoc]}

\* three questions: two that share their first KeyPrefixLen characters, and
\* a short one
LongPrefix == [i \in 1..KeyPrefixLen |-> "q"]
QA == LongPrefix \o <<"1">>
QB == LongPrefix \o <<"2">>
QC == <<"1", "_", "z">>
Questions == {QA, QB, QC}

QuestionLists == UNION {[1..n -> Questions] : n \in 0..MaxQuestions}

AnswerTexts == {"Remote", "100k"}

\* model responses
Candidate(finish, toks) == [finish |-> finish, content |-> "parts", text |-> toks]
RespOf(finish, toks) ==
    [api_error |-> FALSE, cands |-> <<Candidate(finish, toks)>>, text |-> <<>>]
RespApiError == [api_error |-> TRUE, cands |-> <<>>, text |-> <<>>]

\* the JSON text of a list of strings
RECURSIVE ElementToks(_)
ElementToks(strs) ==
    IF strs = <<>> THEN <<>>
    ELSE IF Len(strs) = 1 THEN <<StrTok(strs[1])>>
    ELSE <<StrTok(strs[1]), Tok(",")>> \o ElementToks(Tail(strs))

ListText(strs) == <<Tok("[")>> \o ElementToks(strs) \o <<Tok("]")>>

ProfileText ==
    <<Tok("{"), StrTok(<<"s", "k">>), Tok(":"), StrTok(<<"p", "y">>), Tok("}")>>
TruncatedText == SubSeq(ProfileText, 1, 4)
NumberListText == <<Tok("["), Tok("num"), Tok("]")>>

Behaviour(a, q) == [analysis |-> a, questions |-> q]

\* what the model endpoint answers to the two prompts of an upload turn
LLMBehaviours ==
    { Behaviour(RespOf("STOP", ProfileText), RespOf("STOP", ListText(qs))) :
         qs \in {<<QA, QB>>, <<QC>>, <<>>} }
    \cup
    { Behaviour(RespOf("STOP", TruncatedText), RespOf("STOP", ListText(<<QC>>))),
      Behaviour(RespOf("SAFETY", <<>>), RespOf("STOP", ListText(<<QC>>))),
      Behaviour(RespApiError, RespApiError),
      Behaviour(RespOf("STOP", ProfileText), RespOf("STOP", NumberListText)),
      Behaviour(RespOf("STOP", ProfileText), RespOf("OTHER", <<>>)) }

\* ------------------------------------------------------------------------
\* telegram_bot.py: the ConversationHandler of setup_bot
\* ------------------------------------------------------------------------
UpdateKinds == {"start", "document", "text", "help", "cancel"}

\* the ConversationHandler with the upload handler among its entry points
HandlerFor_UploadIsEntryPoint(state, update) ==
    CASE update = "start" /\ state \in {NONE, END} -> "start_command"
      [] update = "document" /\ state \in {NONE, END, ASK_CV} -> "handle_cv_upload"
      [] update = "text" /\ state = ASK_QUESTIONS -> "handle_question_answer"
      [] update = "cancel" /\ state \in {ASK_CV, ASK_QUESTIONS} -> "cancel_command"
      [] update = "help" -> "help_command"
      [] OTHER -> "none"

\* the handler setup_bot's handlers select for an update in a state:
\* entry_points when there is no conversation, else the state's handlers,
\* then the fallbacks, then the application's own /help handler
HandlerFor(state, update) ==
    CASE update = "start" /\ state \in {NONE, END} -> "start_command"
      [] update = "document" /\ state = ASK_CV -> "handle_cv_upload"
      [] update = "text" /\ state = ASK_QUESTIONS -> "handle_question_answer"
      [] update = "cancel" /\ state \in {ASK_CV, ASK_QUESTIONS} -> "cancel_command"
      [] update = "help" -> "help_command"
      [] OTHER -> "none"

\* the conversation state after a handler returned ret
NextState(state, ret) ==
    IF ret \in {ASK_CV, ASK_QUESTIONS, END} THEN ret ELSE state

NoTurn ==
    [user |-> "none", update |-> "none", handler |-> "none",
     msg |-> [has_document |-> FALSE, file_name |-> <<>>, doc |-> NoDoc],
     text |-> "", before |-> NONE, was |-> EmptyDict,
     out |-> Outcome("None", EmptyDict, FALSE, <<>>, <<>>, <<>>)]

\* the dispatch with one user_data for the whole application
Dispatch_SharedUserData(u, update, msg, text, out) ==
    /\ conv' = [conv EXCEPT ![u] = NextState(conv[u], out.ret)]
    /\ user_data' = [v \in Users |-> out.ud]
    /\ model' = out.model
    /\ turn' = [user |-> u, update |-> update,
                handler |-> HandlerFor(conv[u], update),
                msg |-> msg, text |-> text, before |-> conv[u],
                was |-> user_data[u], out |-> out]
    /\ UNCHANGED <<api_key, llm, files, profiles, clock, probe>>

\* dispatch one update of user u whose selected handler yields out
Dispatch(u, update, msg, text, out) ==
    /\ conv' = [conv EXCEPT ![u] = NextState(conv[u], out.ret)]
    /\ user_data' = [user_data EXCEPT ![u] = out.ud]
    /\ model' = out.model
    /\ turn' = [user |-> u, update |-> update,
                handler |-> HandlerFor(conv[u], update),
                msg |-> msg, text |-> text, before |-> conv[u],
                was |-> user_data[u], out |-> out]
    /\ UNCHANGED <<api_key, llm, files, profiles, clock, probe>>

\* an update no handler takes
Ignored(u) == Outcome("None", user_data[u], model, <<>>, <<>>, <<>>)

Start(u) ==
    Dispatch(u, "start", NoTurn.msg, "",
             IF HandlerFor(conv[u], "start") = "start_command"
             THEN start_command(user_data[u], model) ELSE Ignored(u))

\* The SDK is called only by a configuration that gets past `if _model`
\* and the key check (llm_interface.py lines 22-30)
SdkOutcomes(m, key) == IF ~m /\ key = "set" THEN BOOLEAN ELSE {TRUE}

\* an attachment sent: to handle_cv_upload in ASK_CV, to no handler elsewhere
\* (the content of a message no handler takes is not looked at)
Upload(u) ==
    IF HandlerFor(conv[u], "document") = "handle_cv_upload"
    THEN \E msg \in Messages, sdk_ok \in SdkOutcomes(model, api_key) :
            Dispatch(u, "document", msg, "",
                     handle_cv_upload(user_data[u], model, api_key, sdk_ok, llm, msg))
    ELSE Dispatch(u, "document", NoTurn.msg, "", Ignored(u))

\* a text message sent: to handle_question_answer in ASK_QUESTIONS
Answer(u) ==
    IF HandlerFor(conv[u], "text") = "handle_question_answer"
    THEN \E answer \in AnswerTexts :
            Dispatch(u, "text", NoTurn.msg, answer,
                     handle_question_answer(user_data[u], model, answer))
    ELSE Dispatch(u, "text", NoTurn.msg, "", Ignored(u))

Help(u) ==
    Dispatch(u, "help", NoTurn.msg, "", help_command(user_data[u], model))

Cancel(u) ==
    Dispatch(u, "cancel", NoTurn.msg, "",
             IF HandlerFor(conv[u], "cancel") = "cancel_command"
             THEN cancel_command(user_data[u], model) ELSE Ignored(u))


\* ------------------------------------------------------------------------
\* job_manager.py
\* ------------------------------------------------------------------------
JobIds == {"openai_job1", "google_job2"}
Details == {"AI Developer", "AI Developer (Senior)"}
Statuses == {"applied", "interested"}

\* a JSON file on disk: absent, or holding a JSON list, or a JSON object
\* whose "applications" member is the list apps
NoFile == [kind |-> "absent", apps |-> <<>>]
ListFile(apps) == [kind |-> "list", apps |-> apps]
DictFile(apps) == [kind |-> "dict", apps |-> apps]

\* _read_json: None for a missing file, else the parsed content
_read_json(file) == IF file.kind = "absent" THEN "None" ELSE file.kind

\* the scan stopping at the first entry of a history that holds the job
FindJob_FirstEntry(job_history, job_id) ==
    IF \E i \in 1..Len(job_history) : job_history[i].job_id = job_id THEN 1 ELSE 0

\* the first index of job_history whose entry has this job_id, 0 when none
FindJob(job_history, job_id) ==
    IF \E i \in 1..Len(job_history) : job_history[i].job_id = job_id
    THEN CHOOSE i \in 1..Len(job_history) :
            /\ job_history[i].job_id = job_id
            /\ \A k \in 1..(i-1) : job_history[k].job_id # job_id
    ELSE 0

\* log_application: the content of the history file after the call
log_application(file, job_id, job_details, status, now) ==
    LET job_history == IF _read_json(file) = "list" THEN file.apps ELSE <<>>
        application_entry ==
            [job_id |-> job_id, details |-> job_details, status |-> status,
             applied_at |-> now, last_updated_status_at |-> now]
        i == FindJob(job_history, job_id)
        updated ==
            IF i # 0
            THEN [job_history EXCEPT
                     ![i] = [application_entry EXCEPT
                                !.applied_at = job_history[i].applied_at]]
            ELSE Append(job_history, application_entry)
    IN  \* _write_json(path, job_history), then the dict that wraps it
        DictFile(updated)

\* update_application_status setting the status of the first entry it scans,
\* whatever its job_id
update_application_status_AnyJob(file, job_id, new_status, now) ==
    LET job_history == file.apps
    IN  IF _read_json(file) # "dict" THEN [ret |-> FALSE, file |-> file]
        ELSE IF job_history = <<>> THEN [ret |-> FALSE, file |-> file]
        ELSE [ret |-> TRUE,
              file |-> DictFile([job_history EXCEPT
                                    ![1].status = new_status,
                                    ![1].last_updated_status_at = now])]

\* update_application_status: the value returned and the file afterwards
update_application_status(file, job_id, new_status, now) ==
    LET job_history == file.apps
        i == FindJob(job_history, job_id)
    IN  IF _read_json(file) # "dict" THEN [ret |-> FALSE, file |-> file]
        ELSE IF i = 0 THEN [ret |-> FALSE, file |-> file]
        ELSE [ret |-> TRUE,
              file |-> DictFile([job_history EXCEPT
                                    ![i].status = new_status,
                                    ![i].last_updated_status_at = now])]

\* get_user_job_history
get_user_job_history(file) ==
    IF _read_json(file) = "dict" THEN file.apps ELSE <<>>

\* json.dump of a parsed JSON scalar, list or dict: the tokens of its text
ItemTok(item) == [t |-> item.type, s |-> item.s]

RECURSIVE MemberToks(_)
MemberToks(items) ==
    IF items = <<>> THEN <<>>
    ELSE LET member == <<StrTok(items[1].key), Tok(":"), ItemTok(items[1])>>
         IN  IF Len(items) = 1 THEN member
             ELSE member \o <<Tok(",")>> \o MemberToks(Tail(items))

RECURSIVE ItemToks(_)
ItemToks(items) ==
    IF items = <<>> THEN <<>>
    ELSE IF Len(items) = 1 THEN <<ItemTok(items[1])>>
    ELSE <<ItemTok(items[1]), Tok(",")>> \o ItemToks(Tail(items))

json_dump(v) ==
    IF v.type = "dict" THEN <<Tok("{")>> \o MemberToks(v.items) \o <<Tok("}")>>
    ELSE IF v.type = "list" THEN <<Tok("[")>> \o ItemToks(v.items) \o <<Tok("]")>>
    ELSE <<ItemTok(v.items[1])>>

\* the profile file: a JSON object with the members user_id, cv_analysis,
\* preferences and last_updated, the two dicts as their JSON text
ProfileFile(user_id, cv_analysis, preferences, last_updated) ==
    [kind |-> "dict", user_id |-> user_id, cv_analysis |-> cv_analysis,
     preferences |-> preferences, last_updated |-> last_updated]

\* store_user_profile writing empty preferences
store_user_profile_AnalysisOnly(user_id, cv_analysis, preferences, now) ==
    ProfileFile(user_id, json_dump(cv_analysis), json_dump(JDict(<<>>)), now)

\* store_user_profile: the content of the profile file after the call
store_user_profile(user_id, cv_analysis, preferences, now) ==
    ProfileFile(user_id, json_dump(cv_analysis), json_dump(preferences), now)

\* Python's None, and the dict load_user_profile returns
NoneValue == [type |-> "None"]

\* load_user_profile
load_user_profile(file) ==
    IF _read_json(file) = "None" THEN NoneValue
    ELSE [type |-> "dict", user_id |-> file.user_id,
          cv_analysis |-> json_loads(file.cv_analysis).val,
          preferences |-> json_loads(file.preferences).val,
          last_updated |-> file.last_updated]

\* the analyses and preferences a client stores
CvAnalyses == {JDict(<<>>), json_loads(ProfileText).val}
PreferenceValues ==
    {JDict(<<>>),
     JDict(<<Item(<<"l", "o", "c">>, StrTok(<<"x">>)), Item(<<"n">>, Tok("num"))>>)}

\* a direct call of a profile function
ProfileCall(fn, u, cv_analysis, preferences, ret) ==
    [fn |-> fn, user |-> u, cv_analysis |-> cv_analysis,
     preferences |-> preferences, ret |-> ret]

StoreUserProfile(u) ==
    \E cv \in CvAnalyses, prefs \in PreferenceValues :
        /\ profiles' = [profiles EXCEPT ![u] = store_user_profile(u, cv, prefs, clock)]
        /\ probe' = ProfileCall("store_user_profile", u, cv, prefs, NoneValue)
        /\ UNCHANGED <<botVars, files, clock>>

LoadUserProfile(u) ==
    /\ probe' = ProfileCall("load_user_profile", u, JDict(<<>>), JDict(<<>>),
                             load_user_profile(profiles[u]))
    /\ UNCHANGED <<botVars, storeVars>>

GetUserJobHistory(u) ==
    /\ probe' = [fn |-> "get_user_job_history", user |-> u,
                  ret |-> get_user_job_history(files[u])]
    /\ UNCHANGED <<botVars, storeVars>>

\* a direct call of a job_manager function
StoreCall(fn, u, job_id, details, status, ret) ==
    [fn |-> fn, user |-> u, job_id |-> job_id, details |-> details,
     status |-> status, ret |-> ret]

LogApplication(u) ==
    \E job_id \in JobIds, d \in Details, st \in Statuses :
        /\ files' = [files EXCEPT ![u] = log_application(files[u], job_id, d, st, clock)]
        /\ probe' = StoreCall("log_application", u, job_id, d, st, FALSE)
        /\ UNCHANGED <<botVars, profiles, clock>>

UpdateApplicationStatus(u) ==
    \E job_id \in JobIds, st \in Statuses :
        LET r == update_application_status(files[u], job_id, st, clock)
        IN  /\ files' = [files EXCEPT ![u] = r.file]
            /\ probe' = StoreCall("update_application_status", u, job_id, "", st, r.ret)
            /\ UNCHANGED <<botVars, profiles, clock>>

\* time passes between two calls
Tick ==
    /\ clock < MaxClock
    /\ clock' = clock + 1
    /\ UNCHANGED <<botVars, files, profiles, probe>>

NoProbe == [fn |-> "none"]

\* no file written yet
StoreEmpty ==
    /\ files = [u \in Users |-> NoFile]
    /\ profiles = [u \in Users |-> NoFile]
    /\ clock = 0

\* the bot before any update, its client configured
BotIdle ==
    /\ conv = [u \in Users |-> NONE]
    /\ user_data = [u \in Users |-> EmptyDict]
    /\ api_key = "set"
    /\ model = TRUE
    /\ llm = Behaviour(RespApiError, RespApiError)
    /\ turn = NoTurn

\* the bot as main starts it: no conversation, empty user_data, the client
\* configured at start-up when the key allows it
Init ==
    /\ conv = [u \in Users |-> NONE]
    /\ user_data = [u \in Users |-> EmptyDict]
    /\ api_key \in {"set", "missing", "placeholder"}
    /\ model \in {api_key = "set", FALSE}
    /\ llm \in LLMBehaviours
    /\ turn = NoTurn
    /\ StoreEmpty
    /\ probe = NoProbe

Next ==
    \E u \in Users :
        \/ Start(u)
        \/ Upload(u)
        \/ Answer(u)
        \/ Help(u)
        \/ Cancel(u)

Spec == Init /\ [][Next]_vars

\* log_application stopped between its two writes of the history file (the
\* process is killed, or the second _write_json raises DataStorageError):
\* the file holds the bare list of the first write
LogApplicationInterrupted(u) ==
    \E job_id \in JobIds, d \in Details, st \in Statuses :
        /\ files' = [files EXCEPT
                        ![u] = ListFile(log_application(files[u], job_id, d, st, clock).apps)]
        /\ probe' = StoreCall("log_application_interrupted", u, job_id, d, st, FALSE)
        /\ UNCHANGED <<botVars, profiles, clock>>

\* the profile store alone, called by a client of job_manager
InitStore ==
    /\ BotIdle
    /\ StoreEmpty
    /\ probe = NoProbe

NextStore ==
    \/ \E u \in Users : LogApplication(u)
    \/ \E u \in Users : UpdateApplicationStatus(u)
    \/ Tick

SpecStore == InitStore /\ [][NextStore]_vars

\* the profile files, and the history of users who logged nothing
NextProfile ==
    \/ \E u \in Users : StoreUserProfile(u)
    \/ \E u \in Users : LoadUserProfile(u)
    \/ \E u \in Users : GetUserJobHistory(u)
    \/ Tick

SpecProfile == InitStore /\ [][NextProfile]_vars

\* the history file of one user, with calls that may be interrupted
HistoryUser == "u1"

NextStoreFaults ==
    \/ LogApplication(HistoryUser)
    \/ LogApplicationInterrupted(HistoryUser)
    \/ UpdateApplicationStatus(HistoryUser)
    \/ Tick

SpecStoreFaults == InitStore /\ [][NextStoreFaults]_vars

\* The handlers as functions of the context they are called with: the
\* conversation of user "u1" starts in a context drawn from those the
\* assignments of handle_cv_upload build (raw text, analysis, a question
\* list, no answers, index 0) in ASK_QUESTIONS, or in ASK_CV with an empty
\* user_data; every other user starts as in Init.
ProfileValue == json_loads(ProfileText).val

OpenedContexts ==
    { StoreQuestions(Put(Put(EmptyDict, "raw_cv_text", <<"a">>),
                         "cv_analysis", ProfileValue), qs) :
         qs \in QuestionLists \ {<<>>} }

InitSession ==
    /\ \E c \in {ASK_CV, ASK_QUESTIONS} :
          /\ conv = [u \in Users |-> IF u = "u1" THEN c ELSE NONE]
          /\ \E ud \in (IF c = ASK_QUESTIONS THEN OpenedContexts ELSE {EmptyDict}) :
                user_data = [u \in Users |-> IF u = "u1" THEN ud ELSE EmptyDict]
    /\ api_key = "set"
    /\ model = TRUE
    /\ llm = Behaviour(RespOf("STOP", ProfileText), RespOf("STOP", ListText(<<QC>>)))
    /\ turn = NoTurn
    /\ StoreEmpty
    /\ probe = NoProbe

SpecSession == InitSession /\ [][Next]_vars

\* Two conversations side by side: each user starts in ASK_CV with an empty
\* user_data, or in ASK_QUESTIONS in a context handle_cv_upload builds for
\* one or for two questions.
PairContexts ==
    { StoreQuestions(Put(Put(EmptyDict, "raw_cv_text", <<"a">>),
                         "cv_analysis", ProfileValue), qs) :
         qs \in {<<QC>>, <<QA, QB>>} }

PairStarts ==
    {[conv |-> ASK_CV, ud |-> EmptyDict]}
    \cup {[conv |-> ASK_QUESTIONS, ud |-> ud] : ud \in PairContexts}

InitPair ==
    /\ \E start \in [Users -> PairStarts] :
          /\ conv = [u \in Users |-> start[u].conv]
          /\ user_data = [u \in Users |-> start[u].ud]
    /\ api_key = "set"
    /\ model = TRUE
    /\ llm = Behaviour(RespOf("STOP", ProfileText), RespOf("STOP", ListText(<<QC>>)))
    /\ turn = NoTurn
    /\ StoreEmpty
    /\ probe = NoProbe

SpecPair == InitPair /\ [][Next]_vars

\* parse_cv as a function: the inputs are drawn, then the call is made
NoResult == [tag |-> "none"]

InitParse ==
    /\ BotIdle
    /\ StoreEmpty
    /\ \E d \in Docs, n \in FileNames :
          probe = [fn |-> "input", doc |-> d, file_name |-> n, res |-> NoResult]

ParseCv ==
    /\ probe.fn = "input"
    /\ probe' = [probe EXCEPT !.fn = "parse_cv",
                              !.res = parse_cv(probe.doc, probe.file_name)]
    /\ UNCHANGED <<botVars, storeVars>>

NextParse == ParseCv

SpecParse == InitParse /\ [][NextParse]_vars

\* ------------------------------------------------------------------------
\* llm_interface.py called directly, with a mocked model
\* ------------------------------------------------------------------------
\* the hint of the question prompt: "generate up to 11 targeted questions"
QuestionHint == 11

DuplicateKeyText ==
    <<Tok("{"), StrTok(<<"s", "k">>), Tok(":"), StrTok(<<"p", "y">>), Tok(","),
      StrTok(<<"s", "k">>), Tok(":"), Tok("null"), Tok("}")>>
ScalarText == <<StrTok(<<"p", "y">>)>>
MixedListText == <<Tok("["), StrTok(QC), Tok(","), Tok("num"), Tok("]")>>
LongListText == ListText([i \in 1..(QuestionHint + 1) |-> QC])

\* the texts a candidate carries in a drawn response
CandTexts == {<<>>, ProfileText, TruncatedText}

Cands ==
    {Candidate(f, t) : f \in FinishReasons, t \in CandTexts}
    \cup {[finish |-> f, content |-> c, text |-> <<>>] :
             f \in {"STOP", "MAX_TOKENS"}, c \in {"none", "empty"}}

CandSeqs == UNION {[1..n -> Cands] : n \in 0..MaxCands}

\* the responses of the mocked model: an API error, any short sequence of
\* candidates with or without a text of the response itself, and single
\* complete or truncated candidates with other JSON texts
Responses ==
    {RespApiError}
    \cup [api_error : {FALSE}, cands : CandSeqs, text : {<<>>, ScalarText}]
    \cup {RespOf(f, t) :
             f \in {"STOP", "MAX_TOKENS"},
             t \in {DuplicateKeyText, ScalarText, NumberListText, MixedListText,
                    LongListText, ListText(<<>>), ListText(<<QC>>),
                    ListText(<<QA, QB>>)}}

\* a direct call: the function, the response the mock gives, whether the SDK
\* lets itself be configured, _model before the call, the outcome
LLMCall(fn, resp, sdk_ok, was, res) ==
    [fn |-> fn, resp |-> resp, sdk_ok |-> sdk_ok, was |-> was, res |-> res]

ConfigureGenaiClient ==
    \E sdk_ok \in SdkOutcomes(model, api_key) :
        LET r == configure_genai_client(model, api_key, sdk_ok)
        IN  /\ model' = r.model
            /\ probe' = LLMCall("configure_genai_client", RespApiError, sdk_ok, model, r.res)
            /\ UNCHANGED <<conv, user_data, api_key, llm, turn, storeVars>>

EnsureLlmClientConfigured ==
    \E sdk_ok \in SdkOutcomes(model, api_key) :
        LET r == ensure_llm_client_configured(model, api_key, sdk_ok)
        IN  /\ model' = r.model
            /\ probe' = LLMCall("ensure_llm_client_configured", RespApiError, sdk_ok,
                                 model, r.res)
            /\ UNCHANGED <<conv, user_data, api_key, llm, turn, storeVars>>

SendPromptAsync ==
    /\ probe' = LLMCall("_send_prompt_async", llm.analysis, TRUE, model,
                         _send_prompt_async(model, llm.analysis))
    /\ UNCHANGED <<botVars, storeVars>>

AnalyzeCvText ==
    \E sdk_ok \in SdkOutcomes(model, api_key) :
        LET r == analyze_cv_text(model, api_key, sdk_ok, llm.analysis)
        IN  /\ model' = r.model
            /\ probe' = LLMCall("analyze_cv_text", llm.analysis, sdk_ok, model, r.res)
            /\ UNCHANGED <<conv, user_data, api_key, llm, turn, storeVars>>

GenerateClarificationQuestions ==
    \E sdk_ok \in SdkOutcomes(model, api_key) :
        LET r == generate_clarification_questions(model, api_key, sdk_ok, llm.questions)
        IN  /\ model' = r.model
            /\ probe' = LLMCall("generate_clarification_questions", llm.questions,
                                 sdk_ok, model, r.res)
            /\ UNCHANGED <<conv, user_data, api_key, llm, turn, storeVars>>

\* the module as imported: _model is None, the key as config.py has it; the
\* mocked model answers every prompt with one drawn response
InitLLM ==
    /\ conv = [u \in Users |-> NONE]
    /\ user_data = [u \in Users |-> EmptyDict]
    /\ api_key \in {"set", "missing", "placeholder"}
    /\ model = FALSE
    /\ \E resp \in Responses : llm = Behaviour(resp, resp)
    /\ turn = NoTurn
    /\ StoreEmpty
    /\ probe = NoProbe

NextLLM ==
    \/ ConfigureGenaiClient
    \/ EnsureLlmClientConfigured
    \/ SendPromptAsync
    \/ AnalyzeCvText
    \/ GenerateClarificationQuestions

SpecLLM == InitLLM /\ [][NextLLM]_vars

\* ------------------------------------------------------------------------
\* Properties
\* ------------------------------------------------------------------------
\* the last turn was an upload of user u that handle_cv_upload took past its
\* file-name check
UploadTurn(u) ==
    /\ turn.user = u
    /\ turn.handler = "handle_cv_upload"
    /\ turn.msg.has_document
    /\ \/ EndsWith(Lower(turn.msg.file_name), PdfExt)
       \/ EndsWith(Lower(turn.msg.file_name), DocxExt)

\* the text extraction yields for the uploaded document
Extracted == parse_cv(turn.msg.doc, turn.msg.file_name)

\* what a configured client gets from the model for a prompt: the parsed
\* JSON, or an error of the model layer
ModelAnswer(resp) ==
    LET sent == _send_prompt_async(TRUE, resp)
    IN  IF sent.tag = "raise" THEN sent ELSE json_loads(sent.val)

AnalysisSucceeds == ModelAnswer(llm.analysis).tag = "ok" /\ ModelAnswer(llm.analysis).val.type = "dict"

QuestionsSucceed ==
    /\ ModelAnswer(llm.questions).tag = "ok"
    /\ IsListOfStrings(ModelAnswer(llm.questions).val)

\* the questions the model lists
ModelQuestions ==
    LET v == ModelAnswer(llm.questions).val
    IN  [i \in 1..Len(v.items) |-> v.items[i].s]

\* the upload of the last turn is one whose extraction and analysis succeed,
\* with the client configured
PipelineSucceeds(u) ==
    /\ UploadTurn(u)
    /\ model
    /\ Extracted.tag = "ok" /\ Extracted.val # <<>>
    /\ AnalysisSucceeds
    /\ QuestionsSucceed

ReplyKinds(replies) == {replies[i].kind : i \in 1..Len(replies)}

\* the last turn of user u was the answer to the last question
LastAnswerTurn(u) ==
    /\ turn.user = u
    /\ turn.handler = "handle_question_answer"
    /\ Get(turn.was, "questions", <<>>) # <<>>
    /\ Get(turn.was, "current_question_index", 0) + 1 = Len(turn.was["questions"])

\* C1: a valid upload whose extraction and analysis succeed and that yields
\* N >= 1 questions opens the question loop (AwaitingAnswers, the N
\* questions stored, no answer yet, nothing handed to persistence), and the
\* answer to the last question ends the session in Completed with N answers
\* and exactly one hand-off to persistence.
C1_UploadThenAnswersComplete ==
    \A u \in Users :
        /\ (PipelineSucceeds(u) /\ ModelQuestions # <<>>) =>
              /\ conv[u] = ASK_QUESTIONS
              /\ Get(user_data[u], "questions", <<>>) = ModelQuestions
              /\ Get(user_data[u], "answers", EmptyDict) = EmptyDict
              /\ turn.out.saved = <<>>
        /\ LastAnswerTurn(u) =>
              /\ conv[u] = END
              /\ Cardinality(DOMAIN Get(user_data[u], "answers", EmptyDict))
                    = Len(turn.was["questions"])
              /\ Len(turn.out.saved) = 1

\* C2: /cancel received in AwaitingDocument or AwaitingAnswers ends the
\* conversation and leaves none of the session keys in user_data.
C2_CancelClearsSession ==
    \A u \in Users :
        (turn.user = u /\ turn.update = "cancel" /\ turn.before \in {ASK_CV, ASK_QUESTIONS})
        => /\ conv[u] = END
           /\ DOMAIN user_data[u] \cap SessionKeys = {}

\* C2 witness: a cancel in the middle of the question loop, with an answer
\* already recorded
C2_Witness ==
    /\ turn.update = "cancel"
    /\ turn.before = ASK_QUESTIONS
    /\ Get(turn.was, "current_question_index", 0) >= 1
    /\ Get(turn.was, "answers", EmptyDict) # EmptyDict
    /\ conv[turn.user] = END

\* a step that is a call of log_application / update_application_status
LogStep(u) ==
    /\ clock' = clock
    /\ probe'.fn = "log_application"
    /\ probe'.user = u

UpdateStep(u) ==
    /\ clock' = clock
    /\ probe'.fn = "update_application_status"
    /\ probe'.user = u

JobsOf(history) == {history[i].job_id : i \in 1..Len(history)}

EntriesOf(history, job_id) == {i \in 1..Len(history) : history[i].job_id = job_id}

\* C3: log_application for a job_id the user's history already holds leaves
\* the entry of that job_id with the new details and status and with the
\* applied_at of the first call.
C3_UpsertKeepsAppliedAt ==
    [][\A u \in Users :
          LET before == get_user_job_history(files[u])
              after == get_user_job_history(files'[u])
              job_id == probe'.job_id
          IN  (LogStep(u) /\ job_id \in JobsOf(before)) =>
                 \E i \in EntriesOf(after, job_id) :
                    /\ after[i].details = probe'.details
                    /\ after[i].status = probe'.status
                    /\ after[i].applied_at = before[FindJob(before, job_id)].applied_at
      ]_vars

\* C4: after a log_application call the history holds exactly one entry for
\* every job_id it held before and exactly one for the job_id logged, and
\* no other entry.
C4_OneEntryPerJob ==
    [][\A u \in Users :
          LET before == get_user_job_history(files[u])
              after == get_user_job_history(files'[u])
          IN  LogStep(u) =>
                 /\ JobsOf(after) = JobsOf(before) \cup {probe'.job_id}
                 /\ \A j \in JobsOf(after) : Cardinality(EntriesOf(after, j)) = 1
      ]_vars

\* C5: update_application_status for a job_id that is not in the user's
\* history (or for a user without a history file) returns False and leaves
\* every history file as it was.
C5_UpdateOfUnknownJobIsRefused ==
    [][\A u \in Users :
          (UpdateStep(u) /\ probe'.job_id \notin JobsOf(get_user_job_history(files[u])))
          => /\ probe'.ret = FALSE
             /\ files' = files
      ]_vars

\* C5 witness: an update refused for a user whose history holds another job
C5_Witness ==
    /\ probe.fn = "update_application_status"
    /\ probe.ret = FALSE
    /\ get_user_job_history(files[probe.user]) # <<>>
    /\ probe.job_id \notin JobsOf(get_user_job_history(files[probe.user]))

\* C6: in an upload turn a parsing error leaves the conversation in
\* AwaitingDocument, a configuration error ends it, and an error of the
\* model layer in analysis or in question generation ends it.
C6_ErrorsRouteTheSession ==
    \A u \in Users :
        UploadTurn(u) =>
           /\ (model /\ Extracted.tag = "raise") => conv[u] = ASK_CV
           /\ ~model => conv[u] = END
           /\ (model /\ Extracted.tag = "ok" /\ Extracted.val # <<>>
                 /\ ModelAnswer(llm.analysis).tag = "raise") => conv[u] = END
           /\ (model /\ Extracted.tag = "ok" /\ Extracted.val # <<>>
                 /\ AnalysisSucceeds /\ ~QuestionsSucceed) => conv[u] = END

\* C7: each answer is stored under a new key that ends with the first
\* KeyPrefixLen characters of the question it answers, every answer stored
\* before stays as it was, and at completion the preferences handed over
\* are these answers, one per question.
C7_AnswersKeptPerQuestion ==
    [][\A u \in Users :
          LET index == Get(user_data[u], "current_question_index", 0)
              questions == Get(user_data[u], "questions", <<>>)
              answers == Get(user_data[u], "answers", EmptyDict)
              answers2 == Get(user_data'[u], "answers", EmptyDict)
              q == questions[index + 1]
          IN  (/\ turn'.user = u
               /\ turn'.handler = "handle_question_answer"
               /\ index < Len(questions)) =>
                 /\ \E k \in DOMAIN answers2 \ DOMAIN answers :
                       /\ DOMAIN answers2 = DOMAIN answers \cup {k}
                       /\ answers2[k] = turn'.text
                       /\ EndsWith(k, SubSeq(q, 1, Min(KeyPrefixLen, Len(q))))
                 /\ \A k \in DOMAIN answers : answers2[k] = answers[k]
                 /\ Cardinality(DOMAIN answers2) = index + 1
                 /\ (index + 1 = Len(questions)) =>
                       /\ conv'[u] = END
                       /\ Len(turn'.out.saved) = 1
                       /\ turn'.out.saved[1].preferences = answers2
      ]_vars

\* C7 witness: a session completed on two questions that share their first
\* KeyPrefixLen characters, answered differently
C7_Witness ==
    /\ turn.handler = "handle_question_answer"
    /\ conv[turn.user] = END
    /\ turn.was["questions"] = <<QA, QB>>
    /\ Len(turn.out.saved) = 1
    /\ LET prefs == turn.out.saved[1].preferences
       IN  /\ prefs[AnswerKey(0, QA)] = "Remote"
           /\ prefs[AnswerKey(1, QB)] = "100k"

\* C8: an upload whose extraction succeeds with empty text is answered with
\* the re-prompt for another file and stays in AwaitingDocument; no model
\* call is made and no raw text, analysis or questions are stored.
C8_EmptyTextReprompts ==
    \A u \in Users :
        (UploadTurn(u) /\ model /\ Extracted = Ok(<<>>)) =>
           /\ conv[u] = ASK_CV
           /\ turn.out.replies[Len(turn.out.replies)].kind = "no_text"
           /\ turn.out.calls = <<>>
           /\ DOMAIN user_data[u] \cap {"raw_cv_text", "cv_analysis", "questions"} = {}

\* C9: an upload for which the question generator returns the empty list
\* ends the session in the same turn: no question is presented and the
\* analysis alone, without preferences, is handed to persistence.
C9_NoQuestionsCompletes ==
    \A u \in Users :
        (PipelineSucceeds(u) /\ ModelQuestions = <<>>) =>
           /\ turn.before = ASK_CV
           /\ conv[u] = END
           /\ "question" \notin ReplyKinds(turn.out.replies)
           /\ turn.out.saved = <<Handoff(ModelAnswer(llm.analysis).val, EmptyDict)>>

\* C10: parse_cv on a stream whose file name has, case-insensitively, an
\* extension other than .pdf and .docx raises CVParserError, whatever the
\* bytes are.
C10_UnsupportedExtensionRaises ==
    (probe.fn = "parse_cv" /\ SplitExt(Lower(probe.file_name)) \notin {PdfExt, DocxExt})
    => probe.res = Raise("CVParserError")

\* C10 witness: a well-formed PDF with text, named with another extension
C10_Witness ==
    /\ probe.fn = "parse_cv"
    /\ probe.file_name = <<"c", ".", "t", "x", "t">>
    /\ probe.doc = [format |-> "pdf", parts |-> <<TextPart(<<"a">>)>>]
    /\ probe.res.tag = "raise"

\* ---- direct calls of llm_interface ----
\* the probed call had a configured client when it sent its prompt
ProbeConfigured == probe.was \/ (api_key = "set" /\ probe.sdk_ok)

\* what _send_prompt_async yields for the response of the probed call
ProbeSent == _send_prompt_async(TRUE, probe.resp)

\* the member names of the JSON object text toks, and the value token of the
\* last member with a name
MemberNames(toks) == {toks[4 * k - 2].s : k \in 1..((Len(toks) - 1) \div 4)}
LastMember(toks, name) ==
    LET ks == {k \in 1..((Len(toks) - 1) \div 4) : toks[4 * k - 2].s = name}
        last == CHOOSE k \in ks : \A j \in ks : j <= k
    IN  toks[4 * last]

\* the response is a completion: one STOP candidate, whose text is all the
\* text of the response
Completed(resp) ==
    /\ ~resp.api_error
    /\ Len(resp.cands) = 1
    /\ resp.cands[1].finish = "STOP"
    /\ resp.cands[1].content = "parts"
    /\ resp.text = <<>>

\* C11: analyze_cv_text returns the parsed JSON when the text of the model
\* response is valid JSON (for an object: one field per member name, with
\* the value of that member), and raises LLMInterfaceError when it is not.
C11_AnalysisIsTheParsedJson ==
    (probe.fn = "analyze_cv_text" /\ ProbeConfigured /\ Completed(probe.resp)) =>
        LET text == probe.resp.cands[1].text
            parsed == json_loads(text)
        IN  IF parsed.tag = "ok"
            THEN /\ probe.res = Ok(parsed.val)
                 /\ parsed.val.type = "dict" =>
                       LET items == probe.res.val.items
                       IN  /\ {items[i].key : i \in 1..Len(items)} = MemberNames(text)
                           /\ Len(items) = Cardinality(MemberNames(text))
                           /\ \A i \in 1..Len(items) :
                                 /\ items[i].type = LastMember(text, items[i].key).t
                                 /\ items[i].s = LastMember(text, items[i].key).s
            ELSE probe.res.tag = "raise" /\ probe.res.exc = "LLMInterfaceError"

\* the candidate that decides the response: the first the loop does not skip
Deciding(resp) ==
    {i \in 1..Len(resp.cands) :
        /\ CandidateStep(resp.cands[i]) # "next"
        /\ \A j \in 1..(i - 1) : CandidateStep(resp.cands[j]) = "next"}

\* the call fails at API level, or ends on a finish reason that is neither
\* blocked nor truncated nor a completion
AbnormalFailure(resp) ==
    \/ resp.api_error
    \/ \E i \in Deciding(resp) : resp.cands[i].finish = "OTHER"

\* C12: when the model call fails at API level or finishes with another
\* abnormal reason, analyze_cv_text and generate_clarification_questions
\* raise LLMInterfaceError and nothing else.
C12_ModelFailuresAreLLMInterfaceErrors ==
    (/\ probe.fn \in {"analyze_cv_text", "generate_clarification_questions"}
     /\ ProbeConfigured
     /\ AbnormalFailure(probe.resp))
    => (probe.res.tag = "raise" /\ probe.res.exc = "LLMInterfaceError")

\* a candidate the loop passes over: complete or truncated, without text
EmptyCompletion(c) ==
    c.finish \in {"STOP", "MAX_TOKENS"} /\ c.content = "parts" /\ c.text = <<>>

\* the response is blocked: a SAFETY or RECITATION candidate, with nothing
\* but empty completions before it
Blocked(resp) ==
    /\ ~resp.api_error
    /\ \E i \in 1..Len(resp.cands) :
          /\ resp.cands[i].finish \in {"SAFETY", "RECITATION"}
          /\ \A j \in 1..(i - 1) : EmptyCompletion(resp.cands[j])

\* C13: for a blocked response _send_prompt_async raises LLMInterfaceError
\* with the "prompt blocked" message and returns no text, whatever text the
\* blocked candidate or the response carries.
C13_BlockedResponseRaises ==
    (probe.fn = "_send_prompt_async" /\ probe.was /\ Blocked(probe.resp)) =>
        /\ probe.res.tag = "raise"
        /\ probe.res.exc = "LLMInterfaceError"
        /\ probe.res.msg = <<"unexpected_error", "prompt_blocked">>

\* C13 witness: a blocked candidate that carries a whole JSON text, after an
\* empty completion, in a response that has a text of its own
C13_Witness ==
    /\ probe.fn = "_send_prompt_async"
    /\ probe.was
    /\ probe.resp.cands = <<Candidate("STOP", <<>>), Candidate("SAFETY", ProfileText)>>
    /\ probe.resp.text = ScalarText
    /\ probe.res.tag = "raise"

\* the completion is truncated: one MAX_TOKENS candidate, whose text is all
\* the text of the response
Truncated(resp) ==
    /\ ~resp.api_error
    /\ Len(resp.cands) = 1
    /\ resp.cands[1].finish = "MAX_TOKENS"
    /\ resp.cands[1].content = "parts"
    /\ resp.text = <<>>

\* C14: for a truncated completion analyze_cv_text returns the parsed partial
\* text when it is valid JSON and raises LLMInterfaceError otherwise.
C14_TruncatedTextMustParse ==
    (probe.fn = "analyze_cv_text" /\ ProbeConfigured /\ Truncated(probe.resp)) =>
        LET parsed == json_loads(probe.resp.cands[1].text)
        IN  IF parsed.tag = "ok"
            THEN probe.res = Ok(parsed.val)
            ELSE probe.res.tag = "raise" /\ probe.res.exc = "LLMInterfaceError"

\* the text is a JSON array of strings: [ str (, str)* ] or [ ]
IsStringArrayText(t) ==
    /\ Len(t) >= 2 /\ Len(t) % 2 = (IF Len(t) = 2 THEN 0 ELSE 1)
    /\ t[1].t = "[" /\ t[Len(t)].t = "]"
    /\ \A i \in 2..(Len(t) - 1) : IF i % 2 = 0 THEN t[i].t = "str" ELSE t[i].t = ","

\* C15: generate_clarification_questions returns a result exactly when the
\* text the model call yields is a JSON array of strings, the result is
\* that array, of whatever length, and any other valid JSON raises
\* LLMInterfaceError.
C15_QuestionsAreTheStringArray ==
    (probe.fn = "generate_clarification_questions" /\ ProbeConfigured) =>
        LET isArray == ProbeSent.tag = "ok" /\ IsStringArrayText(ProbeSent.val)
            text == ProbeSent.val
        IN  /\ probe.res.tag = "ok" <=> isArray
            /\ isArray =>
                  /\ Len(probe.res.val) = (Len(text) - 1) \div 2
                  /\ \A k \in 1..Len(probe.res.val) : probe.res.val[k] = text[2 * k].s
            /\ (ProbeSent.tag = "ok" /\ json_loads(text).tag = "ok" /\ ~isArray) =>
                  probe.res = Raise("LLMInterfaceError")

\* C15 witness: more questions returned than the prompt hints at
C15_Witness ==
    /\ probe.fn = "generate_clarification_questions"
    /\ probe.res.tag = "ok"
    /\ Len(probe.res.val) > QuestionHint

\* C20: a configuration call made while the client is configured, directly
\* or through ensure_llm_client_configured, succeeds and leaves it
\* configured; a call that fails leaves it unconfigured; a call made while
\* it is unconfigured, analysis and question generation included,
\* configures it when the key is set and the SDK accepts it.
C20_ConfigurationIsIdempotentAndLazy ==
    /\ (probe.fn \in {"configure_genai_client", "ensure_llm_client_configured"}
           /\ probe.was)
       => (probe.res.tag = "ok" /\ model)
    /\ (probe.fn = "configure_genai_client" /\ probe.res.tag = "raise") => ~model
    /\ (probe.fn \in {"configure_genai_client", "analyze_cv_text",
                      "generate_clarification_questions"}
           /\ ~probe.was /\ api_key = "set" /\ probe.sdk_ok)
       => model

\* C16: update_application_status for a job_id the user's history holds
\* returns True, sets the status and last_updated_status_at of the entry of
\* that job_id, and leaves its job_id, details and applied_at, every other
\* entry and every other user's file as they were; get_user_job_history
\* then returns the new status.
C16_UpdateChangesOnlyTheStatus ==
    [][\A u \in Users :
          LET before == get_user_job_history(files[u])
              after == get_user_job_history(files'[u])
              job_id == probe'.job_id
              hits == {k \in 1..Len(before) : before[k].job_id = job_id}
              i == CHOOSE k \in hits : \A j \in hits : k <= j
          IN  (UpdateStep(u) /\ hits # {}) =>
                 /\ probe'.ret = TRUE
                 /\ Len(after) = Len(before)
                 /\ after[i].status = probe'.status
                 /\ after[i].last_updated_status_at = clock
                 /\ after[i].job_id = job_id
                 /\ after[i].details = before[i].details
                 /\ after[i].applied_at = before[i].applied_at
                 /\ \A k \in 1..Len(before) : k # i => after[k] = before[k]
                 /\ \A v \in Users \ {u} : files'[v] = files[v]
      ]_vars

\* C16 witness: the second of two entries updated, some time after it was
\* logged, the first entry having another status
C16_Witness ==
    /\ probe.fn = "update_application_status"
    /\ probe.ret = TRUE
    /\ LET history == get_user_job_history(files[probe.user])
       IN  /\ Len(history) = 2
           /\ history[2].job_id = probe.job_id
           /\ history[2].status = probe.status
           /\ history[2].last_updated_status_at > history[2].applied_at
           /\ history[1].status # probe.status

\* C17: after store_user_profile for u, load_user_profile(u) returns a dict
\* with the user_id, cv_analysis and preferences of that call, whatever was
\* stored before; nothing but a store for u changes what it returns; for a
\* user without a profile file it returns None, and for a user without a
\* history file get_user_job_history returns the empty list.
C17_LoadReturnsTheLastStoredProfile ==
    [][\A u \in Users :
          LET stored == clock' = clock /\ probe'.fn = "store_user_profile" /\ probe'.user = u
              loaded == clock' = clock /\ probe'.fn = "load_user_profile" /\ probe'.user = u
              listed == clock' = clock /\ probe'.fn = "get_user_job_history" /\ probe'.user = u
              now == load_user_profile(profiles'[u])
          IN  /\ stored =>
                    /\ now.type = "dict"
                    /\ now.user_id = u
                    /\ now.cv_analysis = probe'.cv_analysis
                    /\ now.preferences = probe'.preferences
              /\ ~stored => profiles'[u] = profiles[u]
              /\ loaded =>
                    /\ probe'.ret = load_user_profile(profiles[u])
                    /\ profiles[u] = NoFile => probe'.ret = NoneValue
              /\ (listed /\ files[u] = NoFile) => probe'.ret = <<>>
      ]_vars

\* C17 witness: a profile with preferences loaded for one user, stored after
\* time passed, while the other user has another profile
C17_Witness ==
    /\ probe.fn = "load_user_profile"
    /\ probe.ret.type = "dict"
    /\ probe.ret.user_id = probe.user
    /\ probe.ret.preferences # JDict(<<>>)
    /\ probe.ret.last_updated > 0
    /\ \E v \in Users \ {probe.user} :
          /\ profiles[v] # NoFile
          /\ load_user_profile(profiles[v]).preferences = JDict(<<>>)

\* the last turn handed a session's data to persistence and ended it
CompletedTurn(u) ==
    /\ turn.user = u
    /\ turn.handler \in {"handle_question_answer", "handle_cv_upload"}
    /\ turn.out.ret = END
    /\ Len(turn.out.saved) = 1

C19_UsersAreIndependent ==
    [][\A v \in Users :
          v # turn'.user => (conv'[v] = conv[v] /\ user_data'[v] = user_data[v])
      ]_vars

\* C19 witness: one user cancels in the middle of the question loop while the
\* other is in the middle of it too, and keeps the answer recorded
C19_Witness ==
    /\ turn.user = "u2"
    /\ turn.handler = "cancel_command"
    /\ turn.before = ASK_QUESTIONS
    /\ Get(turn.was, "answers", EmptyDict) # EmptyDict
    /\ user_data["u2"] = EmptyDict
    /\ conv["u1"] = ASK_QUESTIONS
    /\ Get(user_data["u1"], "answers", EmptyDict) # EmptyDict
    /\ Get(user_data["u1"], "current_question_index", 0) = 1

\* ------------------------------------------------------------------------
\* The bot and direct calls of llm_interface in one process: the module's
\* _model is shared by the handlers and by whoever calls the module (main
\* configures the client through it before the bot starts)
\* ------------------------------------------------------------------------
NextAgent ==
    \/ Next
    \/ NextLLM

SpecAgent == Init /\ [][NextAgent]_vars

\* _send_prompt_async sending the prompt again after a transport error
Requests_RetryOnApiError(m, resp) ==
    IF ~m THEN 0 ELSE IF resp.api_error THEN 2 ELSE 1

\* the generate_content_async calls one _send_prompt_async makes for its
\* prompt: none when the model is not configured, else the one of line 70,
\* whatever the response
Requests(m, resp) ==
    IF ~m THEN 0 ELSE 1

\* the requests the probed direct call sent to the model endpoint
ProbeRequests ==
    LET cfg == configure_genai_client(probe.was, api_key, probe.sdk_ok)
    IN  CASE probe.fn = "_send_prompt_async" -> Requests(probe.was, probe.resp)
          [] probe.fn \in {"analyze_cv_text", "generate_clarification_questions"} ->
                IF cfg.res.tag = "raise" THEN 0 ELSE Requests(cfg.model, probe.resp)
          [] OTHER -> 0

Count(calls, name) == Cardinality({i \in 1..Len(calls) : calls[i] = name})

C22_CancelledIsTerminalUntilStart ==
    [][\A u \in Users :
          (conv[u] = END /\ turn'.user = u) =>
             /\ turn'.update \in {"document", "text"} =>
                   /\ conv'[u] = END
                   /\ user_data'[u] = user_data[u]
                   /\ turn'.handler = "none"
                   /\ turn'.out.replies = <<>>
             /\ turn'.update = "start" => conv'[u] = ASK_CV
             /\ conv'[u] # END => turn'.update = "start"
      ]_vars

\* C22 witness: a document sent after a cancel in the question loop was
\* ignored (in a conversation opened with questions only /cancel ends the
\* conversation with all session keys gone)
C22_Witness ==
    /\ turn.user = "u1"
    /\ turn.update = "document"
    /\ turn.before = END
    /\ turn.handler = "none"
    /\ conv["u1"] = END
    /\ user_data["u1"] = EmptyDict

\* C23: in AwaitingAnswers every text message records one answer, under the
\* key of the current index, advances the index by one and leaves the
\* question list as it was; while a question remains the reply is that
\* next question of the list, alone, and the state stays AwaitingAnswers;
\* the answer to the last question, and only it, ends the session, with no
\* question presented.
C23_QuestionsAnsweredInOrder ==
    [][\A u \in Users :
          LET index == Get(user_data[u], "current_question_index", 0)
              questions == Get(user_data[u], "questions", <<>>)
              answers == Get(user_data[u], "answers", EmptyDict)
              answers2 == Get(user_data'[u], "answers", EmptyDict)
          IN  (conv[u] = ASK_QUESTIONS /\ turn'.user = u /\ turn'.update = "text") =>
                 /\ turn'.handler = "handle_question_answer"
                 /\ Get(user_data'[u], "current_question_index", 0) = index + 1
                 /\ Get(user_data'[u], "questions", <<>>) = questions
                 /\ Cardinality(DOMAIN answers2) = Cardinality(DOMAIN answers) + 1
                 /\ AnswerKey(index, questions[index + 1]) \in DOMAIN answers2 \ DOMAIN answers
                 /\ answers2[AnswerKey(index, questions[index + 1])] = turn'.text
                 /\ index + 1 < Len(questions) =>
                       /\ conv'[u] = ASK_QUESTIONS
                       /\ turn'.out.replies = <<Question(questions[index + 2])>>
                 /\ index + 1 >= Len(questions) =>
                       /\ index + 1 = Len(questions)
                       /\ conv'[u] = END
                       /\ "question" \notin ReplyKinds(turn'.out.replies)
      ]_vars

\* C23 witness: of the two questions QC, QA the first was answered and the
\* second is now presented
C23_Witness ==
    /\ turn.handler = "handle_question_answer"
    /\ turn.was["questions"] = <<QC, QA>>
    /\ turn.was["current_question_index"] = 0
    /\ turn.out.replies = <<Question(QA)>>
    /\ conv[turn.user] = ASK_QUESTIONS
    /\ user_data[turn.user]["current_question_index"] = 1
    /\ user_data[turn.user]["answers"][AnswerKey(0, QC)] = turn.text

\* C24: an upload whose extraction, analysis and question generation succeed
\* with at least one question leaves the conversation in AwaitingAnswers
\* with these questions stored, the index 0 and an empty answer set,
\* whatever user_data held before the turn, and its last reply is the first
\* question.
C24_UploadResetsTheQuestionLoop ==
    \A u \in Users :
        (PipelineSucceeds(u) /\ ModelQuestions # <<>>) =>
           /\ conv[u] = ASK_QUESTIONS
           /\ {"questions", "answers", "current_question_index"} \subseteq DOMAIN user_data[u]
           /\ Get(user_data[u], "questions", <<>>) = ModelQuestions
           /\ Get(user_data[u], "current_question_index", 0) = 0
           /\ Get(user_data[u], "answers", EmptyDict) = EmptyDict
           /\ turn.out.replies[Len(turn.out.replies)] = Question(ModelQuestions[1])

\* ------------------------------------------------------------------------
\* handle_question_answer as a function of the context it is called with:
\* user_data is drawn with each of the three keys of the question loop
\* present or absent, any question list, any index from 0 to one past the
\* longest list, and no or one recorded answer; then the call is made
\* ------------------------------------------------------------------------
WithKey(d, k, present, v) == IF present THEN Put(d, k, v) ELSE d

AnswerContexts ==
    { WithKey(WithKey(WithKey(EmptyDict, "questions", hq, qs),
                      "current_question_index", hi, i),
              "answers", ha, ans) :
         hq \in BOOLEAN, hi \in BOOLEAN, ha \in BOOLEAN,
         qs \in QuestionLists, i \in 0..(MaxQuestions + 1),
         ans \in {EmptyDict, Put(EmptyDict, AnswerKey(0, QC), "Remote")} }

InitAnswer ==
    /\ BotIdle
    /\ StoreEmpty
    /\ \E ud \in AnswerContexts, answer \in AnswerTexts :
          probe = [fn |-> "input", ud |-> ud, answer |-> answer, out |-> NoTurn.out]

HandleQuestionAnswer ==
    /\ probe.fn = "input"
    /\ probe' = [probe EXCEPT
                    !.fn = "handle_question_answer",
                    !.out = handle_question_answer(probe.ud, model, probe.answer)]
    /\ UNCHANGED <<botVars, storeVars>>

NextAnswer == HandleQuestionAnswer

SpecAnswer == InitAnswer /\ [][NextAnswer]_vars

\* the context has no question for the current index
Inconsistent(ud) ==
    \/ Get(ud, "questions", <<>>) = <<>>
    \/ Get(ud, "current_question_index", 0) >= Len(Get(ud, "questions", <<>>))

\* C25: handle_question_answer called with no stored question, or with an
\* index at or past the end of the list, leaves user_data as it was (no
\* answer recorded, index not advanced), sends the one notice that
\* something went wrong, hands nothing to persistence and returns ASK_CV,
\* which takes the conversation from AwaitingAnswers to AwaitingDocument.
C25_InconsistentStateRecovers ==
    (probe.fn = "handle_question_answer" /\ Inconsistent(probe.ud)) =>
       /\ probe.out.ud = probe.ud
       /\ probe.out.replies = <<Reply("something_went_wrong")>>
       /\ probe.out.saved = <<>>
       /\ probe.out.ret = ASK_CV
       /\ NextState(ASK_QUESTIONS, probe.out.ret) = ASK_CV

\* C25 witness: the call with one question stored, that question answered
\* already and the index at 1
C25_Witness ==
    /\ probe.fn = "handle_question_answer"
    /\ probe.ud = Put(Put(Put(EmptyDict, "questions", <<QC>>),
                          "current_question_index", 1),
                      "answers", Put(EmptyDict, AnswerKey(0, QC), "Remote"))
    /\ probe.out.ret = ASK_CV
    /\ probe.out.ud = probe.ud

\* the reply categories that report a failure of the upload turn
ErrorReplies ==
    {"not_a_file", "unsupported_type", "error_parsing", "ai_issue",
     "config_error", "unexpected_error"}

ErrorCount(replies) ==
    Cardinality({i \in 1..Len(replies) : replies[i].kind \in ErrorReplies})

\* C26: an upload turn sends at most one error reply, and a failure is
\* reported in its own category: a document of an unsupported type as
\* unsupported, a missing API key as a configuration error, a document the
\* extraction rejects as a parsing error, a failure of the model layer in
\* the analysis as a model error.
C26_EachErrorHasItsOwnReply ==
    \A u \in Users :
        (turn.user = u /\ turn.handler = "handle_cv_upload") =>
           /\ ErrorCount(turn.out.replies) <= 1
           /\ (turn.msg.has_document /\ ~UploadTurn(u)) =>
                 ReplyKinds(turn.out.replies) = {"unsupported_type"}
           /\ UploadTurn(u) =>
                 /\ (~model /\ api_key # "set") =>
                       ReplyKinds(turn.out.replies) \cap ErrorReplies = {"config_error"}
                 /\ (model /\ Extracted.tag = "raise") =>
                       ReplyKinds(turn.out.replies) \cap ErrorReplies = {"error_parsing"}
                 /\ (model /\ Extracted.tag = "ok" /\ Extracted.val # <<>>
                       /\ ModelAnswer(llm.analysis).tag = "raise") =>
                       ReplyKinds(turn.out.replies) \cap ErrorReplies = {"ai_issue"}

\* ------------------------------------------------------------------------
\* cv_parser.py: parse_cv and the PDF extractor it calls, each as a function
\* of a drawn stream
\* ------------------------------------------------------------------------
ExtractTextFromPdf ==
    /\ probe.fn = "input"
    /\ probe' = [probe EXCEPT !.fn = "_extract_text_from_pdf",
                              !.res = _extract_text_from_pdf(probe.doc)]
    /\ UNCHANGED <<botVars, storeVars>>

NextPdf ==
    \/ ParseCv
    \/ ExtractTextFromPdf

SpecPdf == InitParse /\ [][NextPdf]_vars

\* str.split("\n")
RECURSIVE Lines(_)
Lines(s) ==
    IF \A i \in 1..Len(s) : s[i] # "\n" THEN <<s>>
    ELSE LET nl == CHOOSE i \in 1..Len(s) :
                      s[i] = "\n" /\ \A j \in 1..(i - 1) : s[j] # "\n"
         IN  <<SubSeq(s, 1, nl - 1)>> \o Lines(SubSeq(s, nl + 1, Len(s)))

\* C27: on a stream that opens as a PDF the extraction succeeds whatever its
\* pages do: the result has one line per page, in page order, the line of a
\* page being its text, or empty when its extraction raises or yields
\* None; on a stream that does not open as a PDF it raises CVParserError.
C27_PageFailureDoesNotAbort ==
    probe.fn = "_extract_text_from_pdf" =>
       IF probe.doc.format = "pdf"
       THEN /\ probe.res.tag = "ok"
            /\ IF probe.doc.parts = <<>> THEN probe.res.val = <<>>
               ELSE /\ Len(Lines(probe.res.val)) = Len(probe.doc.parts)
                    /\ \A i \in 1..Len(probe.doc.parts) :
                          Lines(probe.res.val)[i] =
                             IF probe.doc.parts[i].kind = "text"
                             THEN probe.doc.parts[i].text ELSE <<>>
       ELSE probe.res = Raise("CVParserError")

\* C27 witness: a PDF whose first page fails and whose second page holds
\* text is extracted as an empty line and the text
C27_Witness ==
    /\ probe.fn = "_extract_text_from_pdf"
    /\ probe.doc = [format |-> "pdf", parts |-> <<PageError, TextPart(<<"a">>)>>]
    /\ probe.res = Ok(<<"\n", "a">>)

\* C28: whenever a conversation is in AwaitingAnswers between two turns, the
\* user's user_data holds a non-empty question list, an index within it and
\* as many answers as the index says; and no call of handle_question_answer
\* takes its inconsistent-state branch or fails on a missing answer set.
C28_QuestionLoopIsConsistent ==
    /\ \A u \in Users :
          conv[u] = ASK_QUESTIONS =>
             /\ {"questions", "answers", "current_question_index"}
                   \subseteq DOMAIN user_data[u]
             /\ user_data[u]["questions"] # <<>>
             /\ user_data[u]["current_question_index"] \in
                   0..(Len(user_data[u]["questions"]) - 1)
             /\ Cardinality(DOMAIN user_data[u]["answers"])
                   = user_data[u]["current_question_index"]
    /\ turn.handler = "handle_question_answer" =>
          /\ "something_went_wrong" \notin ReplyKinds(turn.out.replies)
          /\ turn.out.ret \in {ASK_QUESTIONS, END}

\* C28 witness: between the two answers of a session on QA and QB
C28_Witness ==
    /\ turn.handler = "handle_question_answer"
    /\ conv["u1"] = ASK_QUESTIONS
    /\ user_data["u1"]["questions"] = <<QA, QB>>
    /\ user_data["u1"]["current_question_index"] = 1
    /\ DOMAIN user_data["u1"]["answers"] = {AnswerKey(0, QA)}

\* C29: a /help of a user, in whatever state the conversation is, is
\* answered with the help text alone and leaves the conversation state and
\* the user_data of every user as they were; in AwaitingAnswers the pending
\* question is therefore the same, and a text message is handled after the
\* /help exactly as it would have been before it.
C29_HelpChangesNothing ==
    [][\A u \in Users :
          (turn'.user = u /\ turn'.update = "help") =>
             /\ turn'.handler = "help_command"
             /\ turn'.out.replies = <<Reply("help")>>
             /\ conv' = conv
             /\ user_data' = user_data
             /\ model' = model
             /\ conv[u] = ASK_QUESTIONS =>
                   \A answer \in AnswerTexts :
                      handle_question_answer(user_data'[u], model', answer)
                         = handle_question_answer(user_data[u], model, answer)
      ]_vars

\* C29 witness: a /help between the first and the second answer
C29_Witness ==
    /\ turn.update = "help"
    /\ turn.before = ASK_QUESTIONS
    /\ Get(turn.was, "current_question_index", 0) = 1
    /\ conv[turn.user] = ASK_QUESTIONS
    /\ user_data[turn.user] = turn.was

\* ------------------------------------------------------------------------
\* main.py: main() step by step.  probe holds the position in main, the
\* environment it runs in, the local `application` and the calls made so far
\* ------------------------------------------------------------------------
\* what error_handler.setup_logging does: it succeeds, or a setting is
\* missing in config (AttributeError), or it fails otherwise
LoggingOutcomes == {"ok", "missing_setting", "fails"}

\* the environment of one run: whether the interpreter evaluates the
\* annotation `-> Optional[Application]` of setup_bot when telegram_bot is
\* imported (`Optional` is not imported there: NameError), the outcome of
\* the logging set-up, whether the storage directories can be created,
\* whether the bot token is set, whether the application starts
Environments ==
    [eager_annotations : BOOLEAN, logging : LoggingOutcomes,
     storage_ok : BOOLEAN, token_ok : BOOLEAN, start_ok : BOOLEAN]

MainAt(pc, env, application, llm_failed, calls) ==
    [fn |-> "main", pc |-> pc, env |-> env, application |-> application,
     llm_failed |-> llm_failed, calls |-> calls]

\* main going on to the model client after a storage failure, as it goes on
\* to the bot after a failure of the model client
AfterStorage_LogsAndGoesOn(storage_ok) == "configure"

\* main, step 2: where main goes after initialize_storage
AfterStorage(storage_ok) == IF storage_ok THEN "configure" ELSE "done"

\* shutdown_bot_async on an application: it stops what runs and shuts the
\* application down; exceptions are logged, not raised
shutdown_bot_async(application) ==
    IF application = "none" THEN "none" ELSE "shut_down"

\* the finally clause of main
FinallyClause(application, calls) ==
    IF application # "none"
    THEN [application |-> shutdown_bot_async(application),
          calls |-> Append(calls, "shutdown_bot_async")]
    ELSE [application |-> application, calls |-> calls]

InitMain ==
    /\ conv = [u \in Users |-> NONE]
    /\ user_data = [u \in Users |-> EmptyDict]
    /\ api_key \in {"set", "missing", "placeholder"}
    /\ model = FALSE
    /\ llm = Behaviour(RespApiError, RespApiError)
    /\ turn = NoTurn
    /\ StoreEmpty
    /\ \E env \in Environments : probe = MainAt("import", env, "none", FALSE, <<>>)

MainStep(pc, application, llm_failed, calls) ==
    /\ probe' = MainAt(pc, probe.env, application, llm_failed, calls)
    /\ UNCHANGED <<conv, user_data, api_key, llm, turn, storeVars>>

\* the imports of main.py (lines 3-14)
ImportModules ==
    /\ probe.pc = "import"
    /\ MainStep(IF probe.env.eager_annotations THEN "crashed" ELSE "logging",
                probe.application, probe.llm_failed, probe.calls)
    /\ UNCHANGED model

\* step 1 (lines 21-46)
SetupLogging ==
    /\ probe.pc = "logging"
    /\ MainStep(IF probe.env.logging = "missing_setting" THEN "done" ELSE "storage",
                probe.application, probe.llm_failed,
                Append(probe.calls, "setup_logging"))
    /\ UNCHANGED model

\* step 2 (lines 61-71)
InitializeStorage ==
    /\ probe.pc = "storage"
    /\ MainStep(AfterStorage(probe.env.storage_ok), probe.application,
                probe.llm_failed, Append(probe.calls, "initialize_storage"))
    /\ UNCHANGED model

\* step 3 (lines 73-83)
ConfigureLlmClient ==
    /\ probe.pc = "configure"
    /\ \E sdk_ok \in SdkOutcomes(model, api_key) :
          LET r == configure_genai_client(model, api_key, sdk_ok)
          IN  /\ model' = r.model
              /\ MainStep("setup", probe.application, r.res.tag = "raise",
                          Append(probe.calls, "configure_genai_client"))

\* step 4, setup_bot (lines 86-90): the application, or ConfigError
SetupBot ==
    /\ probe.pc = "setup"
    /\ MainStep(IF probe.env.token_ok THEN "start" ELSE "finally",
                IF probe.env.token_ok THEN "built" ELSE "none",
                probe.llm_failed, Append(probe.calls, "setup_bot"))
    /\ UNCHANGED model

\* step 4, start_bot_async (line 94): it starts the application, or fails,
\* shuts the application down itself and raises TelegramBotError, or is
\* cancelled while it awaits
StartBot ==
    /\ probe.pc = "start"
    /\ \/ /\ probe.env.start_ok
          /\ MainStep("running", "running", probe.llm_failed,
                      Append(probe.calls, "start_bot_async"))
       \/ /\ ~probe.env.start_ok
          /\ MainStep("finally", shutdown_bot_async(probe.application),
                      probe.llm_failed,
                      probe.calls \o <<"start_bot_async", "shutdown_bot_async">>)
       \/ MainStep("finally", "initialized", probe.llm_failed,
                   Append(probe.calls, "start_bot_async"))
    /\ UNCHANGED model

\* the sleep loop (lines 99-100) ended by an interrupt
Interrupt ==
    /\ probe.pc = "running"
    /\ MainStep("finally", probe.application, probe.llm_failed, probe.calls)
    /\ UNCHANGED model

\* the finally clause (lines 109-119)
Finally ==
    /\ probe.pc = "finally"
    /\ LET f == FinallyClause(probe.application, probe.calls)
       IN  MainStep("done", f.application, probe.llm_failed, f.calls)
    /\ UNCHANGED model

NextMain ==
    \/ ImportModules
    \/ SetupLogging
    \/ InitializeStorage
    \/ ConfigureLlmClient
    \/ SetupBot
    \/ StartBot
    \/ Interrupt
    \/ Finally

SpecMain == InitMain /\ [][NextMain]_vars

\* the place of the first call of fn in calls, 0 when it was not called
FirstCall(calls, fn) ==
    IF \E i \in 1..Len(calls) : calls[i] = fn
    THEN CHOOSE i \in 1..Len(calls) :
            calls[i] = fn /\ \A j \in 1..(i - 1) : calls[j] # fn
    ELSE 0

SetUp == FirstCall(probe.calls, "setup_bot") > 0

\* C30: main calls setup_bot only after initialize_storage has succeeded,
\* and start_bot_async only after setup_bot; a run whose storage cannot be
\* initialised ends without setup_bot; a failure to configure the model
\* client is followed by setup_bot and, when that yields an application, by
\* start_bot_async; and a run of main that ends after setup_bot returned an
\* application has called shutdown_bot_async, as its last call.
C30_MainStartsAndShutsDownInOrder ==
    probe.fn = "main" =>
       /\ SetUp =>
             /\ probe.env.storage_ok
             /\ FirstCall(probe.calls, "initialize_storage") \in
                   1..(FirstCall(probe.calls, "setup_bot") - 1)
       /\ FirstCall(probe.calls, "start_bot_async") > 0 =>
             FirstCall(probe.calls, "setup_bot") \in
                1..(FirstCall(probe.calls, "start_bot_async") - 1)
       /\ (probe.pc = "done" /\ ~probe.env.storage_ok) => ~SetUp
       /\ (probe.llm_failed /\ probe.pc \in {"running", "finally", "done"}) =>
             /\ SetUp
             /\ probe.env.token_ok => FirstCall(probe.calls, "start_bot_async") > 0
       /\ (probe.pc = "done" /\ SetUp /\ probe.env.token_ok) =>
             /\ probe.calls[Len(probe.calls)] = "shutdown_bot_async"
             /\ probe.application = "shut_down"

\* C30 witness: the run in which the API key is missing and the start of the
\* bot fails: storage, client, set-up, start, the shutdown of
\* start_bot_async and the shutdown of main
C30_Witness ==
    /\ probe.fn = "main"
    /\ probe.pc = "done"
    /\ probe.llm_failed
    /\ ~probe.env.start_ok
    /\ probe.calls = <<"setup_logging", "initialize_storage", "configure_genai_client",
                       "setup_bot", "start_bot_async", "shutdown_bot_async",
                       "shutdown_bot_async">>

====
